---------------------------- MODULE Spec2Model ----------------------------
(***************************************************************************)
(* kobject-uevent: decoding of kernel uevents (src/src/lib.rs).            *)
(*                                                                         *)
(* Text is modelled as it is stored: a sequence of bytes (0..255).  A      *)
(* netlink packet is a byte sequence; the uevent file of a sysfs entry is  *)
(* a byte sequence; paths are byte sequences.  Option<T> is <<>> (None)    *)
(* or <<v>> (Some(v)).  A u64 is its canonical decimal digit sequence, so  *)
(* that the whole 64-bit range is representable.                           *)
(***************************************************************************)
EXTENDS Integers, Sequences, FiniteSets, TLC

VARIABLES call, result

vars == <<call, result>>

(***************************************************************************)
(* Bytes and string literals                                               *)
(***************************************************************************)

\* ASCII codes of the characters used in the literals below.
Code ==
  [ c \in {"a","b","c","d","e","f","g","h","i","j","k","l","m","n","o",
           "p","q","r","s","t","u","v","w","x","y","z","A","B","C","D",
           "E","F","G","H","I","J","K","L","M","N","O","P","Q","R","S",
           "T","U","V","W","X","Y","Z","0","1","2","3","4","5","6","7",
           "8","9","=","/","@","+","-"," ","_",".","\n","\r"} |->
    CASE c = "a" -> 97 [] c = "b" -> 98 [] c = "c" -> 99 [] c = "d" -> 100
      [] c = "e" -> 101 [] c = "f" -> 102 [] c = "g" -> 103 [] c = "h" -> 104
      [] c = "i" -> 105 [] c = "j" -> 106 [] c = "k" -> 107 [] c = "l" -> 108
      [] c = "m" -> 109 [] c = "n" -> 110 [] c = "o" -> 111 [] c = "p" -> 112
      [] c = "q" -> 113 [] c = "r" -> 114 [] c = "s" -> 115 [] c = "t" -> 116
      [] c = "u" -> 117 [] c = "v" -> 118 [] c = "w" -> 119 [] c = "x" -> 120
      [] c = "y" -> 121 [] c = "z" -> 122 [] c = "A" -> 65 [] c = "B" -> 66
      [] c = "C" -> 67 [] c = "D" -> 68 [] c = "E" -> 69 [] c = "F" -> 70
      [] c = "G" -> 71 [] c = "H" -> 72 [] c = "I" -> 73 [] c = "J" -> 74
      [] c = "K" -> 75 [] c = "L" -> 76 [] c = "M" -> 77 [] c = "N" -> 78
      [] c = "O" -> 79 [] c = "P" -> 80 [] c = "Q" -> 81 [] c = "R" -> 82
      [] c = "S" -> 83 [] c = "T" -> 84 [] c = "U" -> 85 [] c = "V" -> 86
      [] c = "W" -> 87 [] c = "X" -> 88 [] c = "Y" -> 89 [] c = "Z" -> 90
      [] c = "0" -> 48 [] c = "1" -> 49 [] c = "2" -> 50 [] c = "3" -> 51
      [] c = "4" -> 52 [] c = "5" -> 53 [] c = "6" -> 54 [] c = "7" -> 55
      [] c = "8" -> 56 [] c = "9" -> 57 [] c = "=" -> 61 [] c = "/" -> 47
      [] c = "@" -> 64 [] c = "+" -> 43 [] c = "-" -> 45 [] c = " " -> 32
      [] c = "_" -> 95 [] c = "." -> 46 [] c = "\n" -> 10 [] c = "\r" -> 13 ]

\* The bytes of an ASCII string literal.
B(s) == [ i \in 1..Len(s) |-> Code[SubSeq(s, i, i)] ]

NUL == 0
EQ  == 61

\* Index of the first occurrence of byte c in s at or after i; 0 when none.
RECURSIVE FindFrom(_, _, _)
FindFrom(s, c, i) ==
  IF i > Len(s) THEN 0
  ELSE IF s[i] = c THEN i
  ELSE FindFrom(s, c, i + 1)

\* str::split(sep): the pieces between separators; an empty string gives one
\* empty piece, a trailing separator gives a trailing empty piece.
RECURSIVE Split(_, _)
Split(s, sep) ==
  LET i == FindFrom(s, sep, 1)
  IN  IF i = 0 THEN << s >>
      ELSE << SubSeq(s, 1, i - 1) >> \o Split(SubSeq(s, i + 1, Len(s)), sep)

\* str::split_once('='): None, or Some((before, after)) of the FIRST '='.
split_once(f) ==
  LET i == FindFrom(f, EQ, 1)
  IN  IF i = 0 THEN << >>
      ELSE << [key |-> SubSeq(f, 1, i - 1), value |-> SubSeq(f, i + 1, Len(f))] >>

\* std::str::from_utf8: whether the bytes from position i on are well-formed
\* UTF-8 (Unicode table 3-7).
Cont(s, i) == i <= Len(s) /\ s[i] >= 128 /\ s[i] <= 191

RECURSIVE Utf8From(_, _)
Utf8From(s, i) ==
  IF i > Len(s) THEN TRUE
  ELSE LET b == s[i] IN
    IF b <= 127 THEN Utf8From(s, i + 1)
    ELSE IF b >= 194 /\ b <= 223
      THEN Cont(s, i + 1) /\ Utf8From(s, i + 2)
    ELSE IF b = 224
      THEN i + 1 <= Len(s) /\ s[i + 1] >= 160 /\ s[i + 1] <= 191
           /\ Cont(s, i + 2) /\ Utf8From(s, i + 3)
    ELSE IF (b >= 225 /\ b <= 236) \/ b = 238 \/ b = 239
      THEN Cont(s, i + 1) /\ Cont(s, i + 2) /\ Utf8From(s, i + 3)
    ELSE IF b = 237
      THEN i + 1 <= Len(s) /\ s[i + 1] >= 128 /\ s[i + 1] <= 159
           /\ Cont(s, i + 2) /\ Utf8From(s, i + 3)
    ELSE IF b = 240
      THEN i + 1 <= Len(s) /\ s[i + 1] >= 144 /\ s[i + 1] <= 191
           /\ Cont(s, i + 2) /\ Cont(s, i + 3) /\ Utf8From(s, i + 4)
    ELSE IF b >= 241 /\ b <= 243
      THEN Cont(s, i + 1) /\ Cont(s, i + 2) /\ Cont(s, i + 3)
           /\ Utf8From(s, i + 4)
    ELSE IF b = 244
      THEN i + 1 <= Len(s) /\ s[i + 1] >= 128 /\ s[i + 1] <= 143
           /\ Cont(s, i + 2) /\ Cont(s, i + 3) /\ Utf8From(s, i + 4)
    ELSE FALSE

from_utf8(pkt) == Utf8From(pkt, 1)

(***************************************************************************)
(* Results                                                                 *)
(***************************************************************************)

Ok(v)      == [tag |-> "Ok", value |-> v]
Err(e)     == [tag |-> "Err", error |-> e, text |-> << >>]
ErrWith(e, s) == [tag |-> "Err", error |-> e, text |-> s]
IsOk(r)    == r.tag = "Ok"
IsErr(r)   == r.tag = "Err"

None       == << >>
Some(v)    == << v >>

(***************************************************************************)
(* ActionType                                                              *)
(***************************************************************************)

ActionType ==
  {"Add", "Remove", "Change", "Move", "Online", "Offline", "Bind", "Unbind"}

\* The eight tokens of the match in ActionType::from_str.
TokAdd     == B("add")
TokRemove  == B("remove")
TokChange  == B("change")
TokMove    == B("move")
TokOnline  == B("online")
TokOffline == B("offline")
TokBind    == B("bind")
TokUnbind  == B("unbind")

\* Mutant of from_str: the token is trimmed of spaces before the match.
RECURSIVE TrimSpaces(_)
TrimSpaces(s) ==
  IF s # << >> /\ s[1] = 32 THEN TrimSpaces(Tail(s))
  ELSE IF s # << >> /\ s[Len(s)] = 32 THEN TrimSpaces(SubSeq(s, 1, Len(s) - 1))
  ELSE s

from_str_trimmed(s) ==
  LET t == TrimSpaces(s) IN
  CASE t = TokAdd     -> Ok("Add")
    [] t = TokRemove  -> Ok("Remove")
    [] t = TokChange  -> Ok("Change")
    [] t = TokMove    -> Ok("Move")
    [] t = TokOnline  -> Ok("Online")
    [] t = TokOffline -> Ok("Offline")
    [] t = TokBind    -> Ok("Bind")
    [] t = TokUnbind  -> Ok("Unbind")
    [] OTHER          -> ErrWith("UnexpectedAction", s)

from_str(s) ==
  CASE s = TokAdd     -> Ok("Add")
    [] s = TokRemove  -> Ok("Remove")
    [] s = TokChange  -> Ok("Change")
    [] s = TokMove    -> Ok("Move")
    [] s = TokOnline  -> Ok("Online")
    [] s = TokOffline -> Ok("Offline")
    [] s = TokBind    -> Ok("Bind")
    [] s = TokUnbind  -> Ok("Unbind")
    [] OTHER          -> ErrWith("UnexpectedAction", s)

(***************************************************************************)
(* u64 parsing (value.parse::<u64>())                                      *)
(***************************************************************************)

\* u64::MAX = 18446744073709551615, as decimal digits.
U64MaxDigits == << 1,8,4,4,6,7,4,4,0,7,3,7,0,9,5,5,1,6,1,5 >>

IsDigit(b) == b >= 48 /\ b <= 57

\* Digits without leading zeros; zero is << 0 >>.
RECURSIVE StripZeros(_)
StripZeros(d) ==
  IF Len(d) > 1 /\ d[1] = 0 THEN StripZeros(Tail(d)) ELSE d

\* d <= e for digit sequences of the same length.
RECURSIVE DigitsLeq(_, _)
DigitsLeq(d, e) ==
  IF d = << >> THEN TRUE
  ELSE IF d[1] < e[1] THEN TRUE
  ELSE IF d[1] > e[1] THEN FALSE
  ELSE DigitsLeq(Tail(d), Tail(e))

FitsU64(d) ==
  \/ Len(d) < Len(U64MaxDigits)
  \/ Len(d) = Len(U64MaxDigits) /\ DigitsLeq(d, U64MaxDigits)

\* <u64 as FromStr>::from_str: an optional leading '+', then one or more
\* decimal digits, the value at most u64::MAX.  None on any other text.
parse_u64(s) ==
  LET digits == IF Len(s) > 0 /\ s[1] = 43 THEN Tail(s) ELSE s
  IN  IF digits = << >> THEN None
      ELSE IF \E i \in 1..Len(digits) : ~IsDigit(digits[i]) THEN None
      ELSE LET d == StripZeros([i \in 1..Len(digits) |-> digits[i] - 48])
           IN  IF FitsU64(d) THEN Some(d) ELSE None

(***************************************************************************)
(* parse_uevent_iter                                                       *)
(***************************************************************************)

KeyAction    == B("ACTION")
KeyDevpath   == B("DEVPATH")
KeySubsystem == B("SUBSYSTEM")
KeySeqnum    == B("SEQNUM")

\* value.parse::<PathBuf>(): PathBuf's FromStr is infallible and keeps the
\* text as it is.
parse_PathBuf(value) == Some(value)

\* Mutant of insert: an entry that exists is kept (entry().or_insert()).
insert_keep_first(env, key, value) ==
  [ k \in (DOMAIN env) \cup {key} |-> IF k \in DOMAIN env THEN env[k] ELSE value ]

\* HashMap::insert: the entry of key is created or overwritten.
insert(env, key, value) ==
  [ k \in (DOMAIN env) \cup {key} |-> IF k = key THEN value ELSE env[k] ]

EmptyEnv == [ k \in {} |-> << >> ]

\* The five locals at the top of parse_uevent_iter.
EmptyMaybe ==
  [action |-> None, devpath |-> None, subsystem |-> None,
   env |-> EmptyEnv, seq |-> None]

\* Mutant of MatchKey: the seq slot is set once (get_or_insert), so a later
\* SEQNUM segment is parsed but does not replace it.
MatchKey_seq_set_once(m, key, value) ==
  CASE key = KeyAction ->
         LET a == from_str(value)
         IN  IF IsErr(a) THEN a ELSE Ok([m EXCEPT !.action = Some(a.value)])
    [] key = KeyDevpath ->
         LET p == parse_PathBuf(value)
         IN  IF p = None THEN ErrWith("InvalidDevPath", value)
             ELSE Ok([m EXCEPT !.devpath = p])
    [] key = KeySubsystem ->
         Ok([m EXCEPT !.subsystem = Some(value)])
    [] key = KeySeqnum ->
         LET n == parse_u64(value)
         IN  IF n = None THEN ErrWith("InvalidSeqNum", value)
             ELSE Ok([m EXCEPT !.seq = IF @ = None THEN n ELSE @])
    [] OTHER -> Ok(m)

\* The match on key: the slot the field goes to, or the error of its value.
MatchKey(m, key, value) ==
  CASE key = KeyAction ->
         LET a == from_str(value)
         IN  IF IsErr(a) THEN a ELSE Ok([m EXCEPT !.action = Some(a.value)])
    [] key = KeyDevpath ->
         LET p == parse_PathBuf(value)
         IN  IF p = None THEN ErrWith("InvalidDevPath", value)
             ELSE Ok([m EXCEPT !.devpath = p])
    [] key = KeySubsystem ->
         Ok([m EXCEPT !.subsystem = Some(value)])
    [] key = KeySeqnum ->
         LET n == parse_u64(value)
         IN  IF n = None THEN ErrWith("InvalidSeqNum", value)
             ELSE Ok([m EXCEPT !.seq = n])
    [] OTHER -> Ok(m)

\* One iteration of the for loop over the lines.
ParseLine(m, f) ==
  LET kv == split_once(f)
  IN  IF kv = None THEN Ok(m)
      ELSE LET key   == kv[1].key
               value == kv[1].value
               r     == MatchKey(m, key, value)
           IN  IF IsErr(r) THEN r
               ELSE Ok([r.value EXCEPT !.env = insert(@, key, value)])

\* Mutant of ParseFrom: a line whose value is rejected is skipped.
RECURSIVE ParseFrom_skip_rejected(_, _, _)
ParseFrom_skip_rejected(lines, i, m) ==
  IF i > Len(lines) THEN Ok(m)
  ELSE LET r == ParseLine(m, lines[i])
       IN  ParseFrom_skip_rejected(lines, i + 1, IF IsErr(r) THEN m ELSE r.value)

\* The for loop from line i on, m being the locals so far; `?` returns the
\* first error.
RECURSIVE ParseFrom(_, _, _)
ParseFrom(lines, i, m) ==
  IF i > Len(lines) THEN Ok(m)
  ELSE LET r == ParseLine(m, lines[i])
       IN  IF IsErr(r) THEN r ELSE ParseFrom(lines, i + 1, r.value)

parse_uevent_iter(lines) == ParseFrom(lines, 1, EmptyMaybe)

(***************************************************************************)
(* UEvent::from_netlink_packet                                             *)
(***************************************************************************)

UEvent(action, devpath, subsystem, env, seq) ==
  [action |-> action, devpath |-> devpath, subsystem |-> subsystem,
   env |-> env, seq |-> seq]

\* Mutant of Complete: a missing subsystem is reported as a missing devpath.
Complete_same_error(m) ==
  IF m.action = None THEN Err("ActionNotFound")
  ELSE IF m.devpath = None THEN Err("DevPathNotFound")
  ELSE IF m.subsystem = None THEN Err("DevPathNotFound")
  ELSE IF m.seq = None THEN Err("SeqMissing")
  ELSE Ok([action |-> m.action[1], devpath |-> m.devpath[1],
           subsystem |-> m.subsystem[1], env |-> m.env, seq |-> m.seq[1]])

\* The four ok_or checks and the construction of the record.
Complete(m) ==
  IF m.action = None THEN Err("ActionNotFound")
  ELSE IF m.devpath = None THEN Err("DevPathNotFound")
  ELSE IF m.subsystem = None THEN Err("SubsystemNotFound")
  ELSE IF m.seq = None THEN Err("SeqMissing")
  ELSE Ok(UEvent(m.action[1], m.devpath[1], m.subsystem[1], m.env, m.seq[1]))

\* Mutant of from_netlink_packet: the text is taken without the UTF-8 check
\* (from_utf8_unchecked).
from_netlink_packet_unchecked(pkt) ==
  LET r == parse_uevent_iter(Split(pkt, NUL))
  IN  IF IsErr(r) THEN r ELSE Complete(r.value)

from_netlink_packet(pkt) ==
  IF ~from_utf8(pkt) THEN Err("NotUtf8")
  ELSE LET r == parse_uevent_iter(Split(pkt, NUL))
       IN  IF IsErr(r) THEN r ELSE Complete(r.value)

(***************************************************************************)
(* Paths (std::path on Unix)                                               *)
(***************************************************************************)

SLASH == 47
LF    == 10
CR    == 13

RootDir   == << SLASH >>
CurDir    == B(".")
ParentDir == B("..")

\* Path::components: the pieces between slashes, without the empty ones and
\* without "." except a leading one; a leading slash is the RootDir.
RECURSIVE NormalParts(_, _, _)
NormalParts(parts, i, relative) ==
  IF i > Len(parts) THEN << >>
  ELSE IF parts[i] = << >> \/ (parts[i] = CurDir /\ ~(relative /\ i = 1))
       THEN NormalParts(parts, i + 1, relative)
       ELSE << parts[i] >> \o NormalParts(parts, i + 1, relative)

Components(p) ==
  IF p = << >> THEN << >>
  ELSE IF p[1] = SLASH
       THEN << RootDir >> \o NormalParts(Split(Tail(p), SLASH), 1, FALSE)
       ELSE NormalParts(Split(p, SLASH), 1, TRUE)

\* Path::file_name: the last component when it is a normal one.
file_name(p) ==
  LET c == Components(p)
  IN  IF c = << >> THEN None
      ELSE LET last == c[Len(c)]
           IN  IF last = RootDir \/ last = CurDir \/ last = ParentDir
               THEN None ELSE Some(last)

RECURSIVE JoinWith(_, _)
JoinWith(parts, sep) ==
  IF parts = << >> THEN << >>
  ELSE IF Len(parts) = 1 THEN parts[1]
  ELSE parts[1] \o << sep >> \o JoinWith(Tail(parts), sep)

\* The text of a path given by its components.
AsPath(c) ==
  IF c # << >> /\ c[1] = RootDir
  THEN RootDir \o JoinWith(Tail(c), SLASH)
  ELSE JoinWith(c, SLASH)

\* Mutant of strip_prefix: the prefix is compared as text, not by components.
strip_prefix_text(p, base) ==
  IF Len(base) <= Len(p) /\ SubSeq(p, 1, Len(base)) = base
  THEN Some(SubSeq(p, Len(base) + 1, Len(p)))
  ELSE None

\* Path::strip_prefix: the rest of p when the components of base are the
\* first components of p; None otherwise.
strip_prefix(p, base) ==
  LET cp == Components(p)
      cb == Components(base)
  IN  IF Len(cb) <= Len(cp) /\ SubSeq(cp, 1, Len(cb)) = cb
      THEN Some(AsPath(SubSeq(cp, Len(cb) + 1, Len(cp))))
      ELSE None

\* Path::new("/").join(rel): an absolute rel replaces the "/".
JoinRoot(rel) ==
  IF rel # << >> /\ rel[1] = SLASH THEN rel ELSE RootDir \o rel

\* str::lines: the pieces ended by LF (a CR before the LF removed); what
\* follows the last LF is a line unless it is empty.
StripCR(l) ==
  IF l # << >> /\ l[Len(l)] = CR THEN SubSeq(l, 1, Len(l) - 1) ELSE l

RECURSIVE Lines(_)
Lines(s) ==
  IF s = << >> THEN << >>
  ELSE LET i == FindFrom(s, LF, 1)
       IN  IF i = 0 THEN << s >>
           ELSE << StripCR(SubSeq(s, 1, i - 1)) >>
                  \o Lines(SubSeq(s, i + 1, Len(s)))

(***************************************************************************)
(* UEvent::from_sysfs_path                                                 *)
(*                                                                         *)
(* The file system is what it answers to the three calls made on it: the   *)
(* bytes of <path>/uevent, the target of the link <path>/subsystem and the *)
(* canonical form of <path>, each None when the call fails.                *)
(***************************************************************************)

\* std::fs::read_to_string: the bytes of the file; a file that cannot be
\* read, or is not UTF-8, is an io::Error.
read_to_string(file) ==
  IF file = None \/ ~from_utf8(file[1]) THEN None ELSE file

\* u64 zero.
Zero == << 0 >>

from_sysfs_path(fs, mountpoint) ==
  LET uevent == read_to_string(fs.uevent)
  IN  IF uevent = None THEN Err("Io")
      ELSE IF fs.link = None THEN Err("Io")
      ELSE LET r == parse_uevent_iter(Lines(uevent[1]))
           IN  IF IsErr(r) THEN r
               ELSE IF fs.canonical = None THEN Err("Io")
               ELSE LET rel  == strip_prefix(fs.canonical[1], mountpoint)
                        name == file_name(fs.link[1])
                    IN  IF rel = None THEN Err("NotInsideMountpoint")
                        ELSE IF name = None THEN Err("SubsystemNotFound")
                        ELSE Ok(UEvent("Add", JoinRoot(rel[1]), name[1],
                                       r.value.env, Zero))

(***************************************************************************)
(* Inputs                                                                  *)
(***************************************************************************)

\* Largest number of edits (a segment dropped, or a segment of Segments
\* inserted anywhere) made to a base datagram.
MaxEdits == 1

\* Segments a datagram may contain besides those of its base.
Segments ==
  { << >>,                              \* empty segment (e.g. trailing NUL)
    B("add@/d=x"),                      \* header whose devpath holds '='
    B("ACTION=remove"),
    B("ACTION=hello"),
    B("DEVPATH=/e=1"),                  \* value holding a further '='
    B("SUBSYSTEM="),
    B("SEQNUM=8"),
    B("SEQNUM=x"),
    B("MAJOR=4"),
    B("DEVNAME=") \o << 195, 169 >>,    \* two-byte UTF-8 character
    << 255 >> }                         \* never valid in UTF-8

\* The ACTION tokens of the base datagrams: the eight of the vocabulary and
\* near misses.
BaseActions ==
  { TokAdd, TokRemove, TokChange, TokMove, TokOnline, TokOffline, TokBind,
    TokUnbind, B("hello"), B("Add"), B(" add"), << >>,
    B("ad") \o << 195 >> }              \* truncated two-byte character

\* The SEQNUM values of the base datagrams.
BaseSeqnums ==
  { B("7"), B("3469"), B("007"), B("+9"), B("18446744073709551615"),
    B("18446744073709551616"), B("-1"), << >> }

Datagram(token, seqnum) ==
  << B("add@/d/x"), KeyAction \o << EQ >> \o token, B("DEVPATH=/d/x"),
     B("SUBSYSTEM=tty"), KeySeqnum \o << EQ >> \o seqnum >>

\* The datagram of the spec's example, b"add@/d/x\0ACTION=add\0DEVPATH=/d/x\0
\* SUBSYSTEM=tty\0SEQNUM=7", with its ACTION token or its SEQNUM varied.
Bases ==
  { Datagram(t, B("7")) : t \in BaseActions }
    \cup { Datagram(TokAdd, n) : n \in BaseSeqnums }

Drop(segs, i) == SubSeq(segs, 1, i - 1) \o SubSeq(segs, i + 1, Len(segs))

Insert(segs, i, seg) ==
  SubSeq(segs, 1, i - 1) \o << seg >> \o SubSeq(segs, i, Len(segs))

\* Number of segments of a base datagram.
BaseLen == Len(Datagram(TokAdd, << >>))

\* An edit drops the segment at a position or inserts a segment before it.
EditOps ==
  { [op |-> "drop", at |-> i, seg |-> << >>] : i \in 1..(BaseLen + MaxEdits) }
    \cup { [op |-> "insert", at |-> i, seg |-> s] :
              i \in 1..(BaseLen + MaxEdits), s \in Segments }

\* An edit at a position the datagram does not have changes nothing.
ApplyEdit(segs, e) ==
  IF e.op = "drop"
  THEN IF e.at <= Len(segs) THEN Drop(segs, e.at) ELSE segs
  ELSE IF e.at <= Len(segs) + 1 THEN Insert(segs, e.at, e.seg) ELSE segs

RECURSIVE Apply(_, _, _)
Apply(segs, script, i) ==
  IF i > Len(script) THEN segs
  ELSE Apply(ApplyEdit(segs, script[i]), script, i + 1)

\* The bytes of a datagram: its segments separated by NUL.
RECURSIVE Join(_)
Join(segs) ==
  IF segs = << >> THEN << >>
  ELSE IF Len(segs) = 1 THEN segs[1]
  ELSE segs[1] \o << NUL >> \o Join(Tail(segs))

\* Largest number of lines of a uevent file.
MaxLines == 2

\* Lines a uevent file may hold.
FileLines ==
  { B("MAJOR=4"),
    B("DEVNAME=a\r"),
    B("ACTION=remove"),
    B("ACTION=hello"),
    B("SEQNUM=12"),
    B("SEQNUM=x"),
    << >>,
    << 255 >> }

\* The bytes of a file: its lines, each but perhaps the last ended by LF.
FileText(lines, newline) ==
  JoinWith(lines, LF) \o (IF newline /\ lines # << >> THEN << LF >> ELSE << >>)

\* Targets of the subsystem link (valid UTF-8, so that to_string_lossy
\* keeps the name as it is).
LinkTargets ==
  { B("../../../class/tty"), B("/sys/bus/usb/"), B("../..") }

\* Results of canonicalize: absolute, without ".", ".." or doubled slashes.
CanonicalPaths ==
  { B("/sys/devices/x"), B("/sys"), B("/sysfs/devices/x") }

Mountpoints ==
  { B("/sys"), B("/sys/"), B("/"), << >> }

(***************************************************************************)
(* The state machine: a call is drawn, then the decoder is applied.         *)
(***************************************************************************)

Pending == [tag |-> "Pending"]

\* A netlink datagram: a base datagram after at most MaxEdits edits.
InitNetlink ==
  \E b \in Bases : \E n \in 0..MaxEdits : \E script \in [1..n -> EditOps] :
    /\ call = [fn |-> "from_netlink_packet", pkt |-> Join(Apply(b, script, 1))]
    /\ result = Pending

\* A device directory and a mountpoint.
InitSysfs ==
  \E n \in 0..MaxLines : \E lines \in [1..n -> FileLines] :
  \E newline \in BOOLEAN :
  \E file \in { None, Some(FileText(lines, newline)) } :
  \E link \in { None } \cup { Some(t) : t \in LinkTargets } :
  \E canonical \in { None } \cup { Some(c) : c \in CanonicalPaths } :
  \E mountpoint \in Mountpoints :
    \* A last line ending in CR with no LF after it is left out: whether
    \* str::lines removes that CR depends on the version of std.
    /\ ~(~newline /\ n > 0 /\ StripCR(lines[n]) # lines[n])
    /\ call = [fn |-> "from_sysfs_path",
               fs |-> [uevent |-> file, link |-> link, canonical |-> canonical],
               mountpoint |-> mountpoint]
    /\ result = Pending

Init == InitNetlink \/ InitSysfs

NetlinkDecode ==
  /\ result = Pending
  /\ call.fn = "from_netlink_packet"
  /\ result' = from_netlink_packet(call.pkt)
  /\ UNCHANGED call

SysfsDecode ==
  /\ result = Pending
  /\ call.fn = "from_sysfs_path"
  /\ result' = from_sysfs_path(call.fs, call.mountpoint)
  /\ UNCHANGED call

Next == NetlinkDecode \/ SysfsDecode

Spec == Init /\ [][Next]_vars

(***************************************************************************)
(* Vocabulary of the properties                                            *)
(***************************************************************************)

Netlink == call.fn = "from_netlink_packet" /\ result # Pending
Sysfs   == call.fn = "from_sysfs_path" /\ result # Pending

\* The NUL-separated segments of the packet of the call.
Segs == Split(call.pkt, NUL)

HasEq(f) == \E i \in 1..Len(f) : f[i] = EQ

\* Position of the first '=' of a segment that has one.
FirstEq(f) ==
  CHOOSE i \in 1..Len(f) : f[i] = EQ /\ \A j \in 1..(i - 1) : f[j] # EQ

\* A segment as a field: << >> when it has no '=', else its key (before the
\* first '=') and its value (all that follows it).
Field(f) ==
  IF HasEq(f)
  THEN LET i == FirstEq(f)
       IN  << [key |-> SubSeq(f, 1, i - 1), value |-> SubSeq(f, i + 1, Len(f))] >>
  ELSE << >>

FieldsOf(segs) == [ i \in 1..Len(segs) |-> Field(segs[i]) ]

\* The positions of the fields KEY=... among fields fs.
At(fs, key) == { i \in 1..Len(fs) : fs[i] # << >> /\ fs[i][1].key = key }

Present(fs, key) == At(fs, key) # {}

\* The last field with a key.
Last(fs, key) == CHOOSE i \in At(fs, key) : \A j \in At(fs, key) : j <= i

\* The eight tokens and their variants.
Vocabulary ==
  { <<TokAdd, "Add">>, <<TokRemove, "Remove">>, <<TokChange, "Change">>,
    <<TokMove, "Move">>, <<TokOnline, "Online">>, <<TokOffline, "Offline">>,
    <<TokBind, "Bind">>, <<TokUnbind, "Unbind">> }

IsToken(t) == \E e \in Vocabulary : e[1] = t

\* A text that parses as a decimal u64.
IsU64(v) == parse_u64(v) # None

\* The positions of the fields whose value the field parser rejects.
Rejected(fs) ==
  { i \in 1..Len(fs) :
      /\ fs[i] # << >>
      /\ \/ fs[i][1].key = KeyAction /\ ~IsToken(fs[i][1].value)
         \/ fs[i][1].key = KeySeqnum /\ ~IsU64(fs[i][1].value) }

Required == { KeyAction, KeyDevpath, KeySubsystem, KeySeqnum }

(***************************************************************************)
(* C1                                                                      *)
(***************************************************************************)

\* The packet is UTF-8, holds DEVPATH, SUBSYSTEM and SEQNUM segments, its
\* SEQNUM segments being decimal u64, and exactly one ACTION segment.
C1_Case(fs) ==
  /\ Netlink
  /\ from_utf8(call.pkt)
  /\ Present(fs, KeyDevpath)
  /\ Present(fs, KeySubsystem)
  /\ Present(fs, KeySeqnum)
  /\ \A i \in At(fs, KeySeqnum) : IsU64(fs[i][1].value)
  /\ Cardinality(At(fs, KeyAction)) = 1

C1_Token(fs) == fs[Last(fs, KeyAction)][1].value

\* C1: for a UTF-8 packet with DEVPATH, SUBSYSTEM, a decimal u64 SEQNUM and
\* exactly one ACTION=<t> segment, from_netlink_packet succeeds with the
\* variant of t when t is one of the eight tokens, and fails with
\* UnexpectedAction carrying t verbatim for any other t.
C1_ActionVocabulary ==
  Netlink =>
    LET fs == FieldsOf(Segs)
    IN  C1_Case(fs) =>
          IF IsToken(C1_Token(fs))
          THEN /\ IsOk(result)
               /\ <<C1_Token(fs), result.value.action>> \in Vocabulary
          ELSE result = ErrWith("UnexpectedAction", C1_Token(fs))

\* A near miss of a token (" add", untrimmed) is rejected, verbatim.
C1_Witness ==
  /\ Netlink
  /\ LET fs == FieldsOf(Segs)
     IN  C1_Case(fs) /\ C1_Token(fs) = B(" add")
  /\ result = ErrWith("UnexpectedAction", B(" add"))

(***************************************************************************)
(* C2                                                                      *)
(***************************************************************************)

NotFound(key) ==
  CASE key = KeyAction    -> "ActionNotFound"
    [] key = KeyDevpath   -> "DevPathNotFound"
    [] key = KeySubsystem -> "SubsystemNotFound"
    [] key = KeySeqnum    -> "SeqMissing"

\* A well-formed packet: UTF-8, no field the parser rejects.
C2_Case(fs) == Netlink /\ from_utf8(call.pkt) /\ Rejected(fs) = {}

Missing(fs) == { key \in Required : ~Present(fs, key) }

\* C2: a well-formed packet decodes when ACTION, DEVPATH, SUBSYSTEM and
\* SEQNUM are all present, and when exactly one of them is omitted the call
\* fails with the error naming that field.
C2_MissingField ==
  Netlink =>
    LET fs == FieldsOf(Segs)
        missing == Missing(fs)
    IN  C2_Case(fs) =>
          /\ missing = {} => IsOk(result)
          /\ \A key \in Required :
               missing = {key} => result = Err(NotFound(key))

\* SUBSYSTEM alone is omitted and SubsystemNotFound is returned.
C2_Witness ==
  /\ Netlink
  /\ LET fs == FieldsOf(Segs)
     IN  C2_Case(fs) /\ Missing(fs) = {KeySubsystem}
  /\ result = Err("SubsystemNotFound")

(***************************************************************************)
(* C3                                                                      *)
(***************************************************************************)

\* The keys of the segments that have a '='.
Keys(fs) == { fs[i][1].key : i \in { j \in 1..Len(fs) : fs[j] # << >> } }

\* C3: on success env is exactly the last-write-wins map of the segments
\* that contain '=', each split at its first '=' only: its keys are the
\* keys of those segments, and the value of a key is the whole value of the
\* last segment with that key.
C3_EnvRoundTrip ==
  (Netlink /\ IsOk(result)) =>
    LET fs == FieldsOf(Segs)
    IN  /\ DOMAIN result.value.env = Keys(fs)
        /\ \A key \in Keys(fs) :
             result.value.env[key] = fs[Last(fs, key)][1].value

\* DEVPATH occurs twice; the later value, which holds a '=', is the entry.
C3_Witness ==
  /\ Netlink /\ IsOk(result)
  /\ Cardinality(At(FieldsOf(Segs), KeyDevpath)) = 2
  /\ result.value.env[KeyDevpath] = B("/e=1")
  /\ Segs[1] = B("add@/d/x")

(***************************************************************************)
(* C5                                                                      *)
(***************************************************************************)

\* C5: every record returned by from_netlink_packet or from_sysfs_path has
\* a non-empty subsystem.
C5_SubsystemNonEmpty ==
  ((Netlink \/ Sysfs) /\ IsOk(result)) => result.value.subsystem # << >>

(***************************************************************************)
(* C6                                                                      *)
(***************************************************************************)

\* C6: a packet that is not valid UTF-8 fails with NotUtf8, whatever else
\* it contains.
C6_NotUtf8First ==
  (Netlink /\ ~from_utf8(call.pkt)) => result = Err("NotUtf8")

\* The packet holds the byte 255, never valid in UTF-8, and an unrecognized
\* ACTION.
C6_Witness ==
  /\ Netlink
  /\ \E i \in 1..Len(call.pkt) : call.pkt[i] = 255
  /\ \E i \in 1..Len(Segs) : Segs[i] = B("ACTION=hello")
  /\ result = Err("NotUtf8")

(***************************************************************************)
(* C7                                                                      *)
(***************************************************************************)

\* The outcome of decoding a sequence of segments.
DecodeSegments(segs) ==
  LET r == parse_uevent_iter(segs)
  IN  IF IsErr(r) THEN r ELSE Complete(r.value)

\* C7: the first segment is ignored: the outcome of a UTF-8 packet is the
\* outcome of its second and later segments.
C7_HeaderIgnored ==
  (Netlink /\ from_utf8(call.pkt)) => result = DecodeSegments(Tail(Segs))

(***************************************************************************)
(* C9                                                                      *)
(***************************************************************************)

First(set) == CHOOSE i \in set : \A j \in set : i <= j

C9_Case(fs) == Netlink /\ from_utf8(call.pkt) /\ Rejected(fs) # {}

\* C9: when a segment is ACTION=<unrecognized> or SEQNUM=<not a u64>, the
\* call returns the error of the earliest such segment, carrying its raw
\* value, whatever the other segments are and whichever fields are missing.
C9_FirstFailureWins ==
  Netlink =>
    LET fs == FieldsOf(Segs)
    IN  C9_Case(fs) =>
          LET f == fs[First(Rejected(fs))][1]
          IN  result = ErrWith(IF f.key = KeyAction THEN "UnexpectedAction"
                                                    ELSE "InvalidSeqNum",
                               f.value)

\* SEQNUM=x comes before ACTION=hello: the error is that of SEQNUM=x.
C9_Witness ==
  /\ Netlink
  /\ LET fs == FieldsOf(Segs)
     IN  /\ C9_Case(fs)
         /\ Cardinality(Rejected(fs)) = 2
         /\ Segs[First(Rejected(fs))] = B("SEQNUM=x")
         /\ \E i \in Rejected(fs) : Segs[i] = B("ACTION=hello")
  /\ result = ErrWith("InvalidSeqNum", B("x"))

(***************************************************************************)
(* C10                                                                     *)
(***************************************************************************)

\* C10: on success of from_netlink_packet the typed fields agree with env:
\* env holds the four keys, env[ACTION] is the token of action, env[DEVPATH]
\* the text of devpath, env[SUBSYSTEM] is subsystem and env[SEQNUM] parses
\* to seq.
C10_TypedAgreesWithEnv ==
  (Netlink /\ IsOk(result)) =>
    LET ev == result.value
    IN  /\ Required \subseteq DOMAIN ev.env
        /\ <<ev.env[KeyAction], ev.action>> \in Vocabulary
        /\ ev.env[KeyDevpath] = ev.devpath
        /\ ev.env[KeySubsystem] = ev.subsystem
        /\ parse_u64(ev.env[KeySeqnum]) = Some(ev.seq)

\* SEQNUM occurs twice with different values; seq is the later one.
C10_Witness ==
  /\ Netlink /\ IsOk(result)
  /\ LET fs == FieldsOf(Segs)
     IN  /\ { fs[i][1].value : i \in At(fs, KeySeqnum) } = { B("7"), B("8") }
         /\ fs[Last(fs, KeySeqnum)][1].value = B("8")
  /\ result.value.env[KeySeqnum] = B("8")
  /\ result.value.seq = << 8 >>

(***************************************************************************)
(* C4                                                                      *)
(***************************************************************************)

Readable(file) == file # None /\ from_utf8(file[1])

\* The canonical path lies under the mountpoint: the components of the
\* mountpoint are the first components of the canonical path.
Under(canonical, mountpoint) ==
  LET cc == Components(canonical)
      cm == Components(mountpoint)
  IN  Len(cm) <= Len(cc) /\ \A i \in 1..Len(cm) : cc[i] = cm[i]

\* The file and the link are read, the link names a subsystem and the
\* canonical path lies under the mountpoint.
C4_Case ==
  /\ Sysfs
  /\ Readable(call.fs.uevent)
  /\ call.fs.link # None
  /\ file_name(call.fs.link[1]) # None
  /\ call.fs.canonical # None
  /\ Under(call.fs.canonical[1], call.mountpoint)

\* C4: from_sysfs_path succeeds with action Add and seq 0 whatever the
\* ACTION= and SEQNUM= lines of the uevent file are.
C4_ActionSeqIgnored ==
  C4_Case =>
    /\ IsOk(result)
    /\ result.value.action = "Add"
    /\ result.value.seq = Zero

(***************************************************************************)
(* C8                                                                      *)
(***************************************************************************)

\* C8 as stated: a call whose canonical directory is not under the
\* mountpoint fails with NotInsideMountpoint.
C8_EscapeAlwaysReported ==
  (Sysfs /\ call.fs.canonical # None
         /\ ~Under(call.fs.canonical[1], call.mountpoint))
    => result = Err("NotInsideMountpoint")

\* The steps before canonicalize succeed, and canonicalize too: the file
\* and the link are read and no line of the file is rejected.
C8_EarlierStepsOk ==
  /\ Sysfs
  /\ Readable(call.fs.uevent)
  /\ call.fs.link # None
  /\ Rejected(FieldsOf(Lines(call.fs.uevent[1]))) = {}
  /\ call.fs.canonical # None

\* The components of the canonical path after those of the mountpoint,
\* re-rooted at "/".
C8_Rerooted ==
  LET cc   == Components(call.fs.canonical[1])
      cm   == Components(call.mountpoint)
      rest == SubSeq(cc, Len(cm) + 1, Len(cc))
  IN  << RootDir >> \o SelectSeq(rest, LAMBDA c : c # RootDir)

\* C8 (amended): when the file and the link are read and the lines parse, a
\* canonical directory that is not under the mountpoint fails with
\* NotInsideMountpoint; when it is under the mountpoint and the link names a
\* subsystem, the call succeeds and devpath is "/" joined with the canonical
\* path stripped of the mountpoint, an absolute path.
C8_MountpointCheck ==
  C8_EarlierStepsOk =>
    IF ~Under(call.fs.canonical[1], call.mountpoint)
    THEN result = Err("NotInsideMountpoint")
    ELSE file_name(call.fs.link[1]) # None =>
           /\ IsOk(result)
           /\ result.value.devpath[1] = SLASH
           /\ Components(result.value.devpath) = C8_Rerooted

\* /sysfs/devices/x is not under /sys although "/sys" starts its text.
C8_Witness ==
  /\ C8_EarlierStepsOk
  /\ call.fs.canonical = Some(B("/sysfs/devices/x"))
  /\ call.mountpoint = B("/sys")
  /\ result = Err("NotInsideMountpoint")

=============================================================================
